---- MODULE Spec2Model ----
(***************************************************************************)
(* Model of the commitlint rule `ignoreForAuthors` of                      *)
(* @mridang/commitlint-plugin-conditionals, in its two variants:           *)
(*   - substring variant (option field ignoreAuthorPatterns),              *)
(*   - trailer variant   (option field signOffPatternsToIgnore).           *)
(*                                                                         *)
(* Strings are sequences of symbols.  A symbol is a single character, or   *)
(* a fixed fragment of a message template (which never takes part in a     *)
(* pattern search); the quote that encloses an interpolated value is a     *)
(* symbol of its own.  Every JavaScript value carries its type tag in the    *)
(* field t; a string carries its symbols in the field s.                   *)
(***************************************************************************)
EXTENDS Naturals, Sequences, FiniteSets, TLC

\* ------------------------------------------------------------------------
\* Bounds of the explored inputs
\* ------------------------------------------------------------------------
MaxLines == 2

MaxPatterns == 2

MaxRules == 2

\* ------------------------------------------------------------------------
\* JavaScript values
\* ------------------------------------------------------------------------
Str(s) == [t |-> "string", s |-> s]

Undefined == [t |-> "undefined", s |-> <<>>]

Null == [t |-> "null", s |-> <<>>]

Num42 == [t |-> "number", s |-> <<"4", "2">>]

\* typeof v
TypeOf(v) == IF v.t \in {"null", "array"} THEN "object" ELSE v.t

\* ToBoolean(v), as used by `if (v)`, `!v` and `a && b`
Truthy(v) ==
  CASE v.t \in {"undefined", "null"} -> FALSE
    [] v.t = "string" -> v.s # <<>>
    [] v.t = "boolean" -> v.b
    [] OTHER -> TRUE

\* Array.isArray(v)
IsArray(v) == v.t = "array"

\* String(v), the conversion a template literal `${v}` applies
StringOf(v) ==
  CASE v.t = "string" -> v.s
    [] v.t = "undefined" -> <<"undefined">>
    [] v.t = "null" -> <<"null">>
    [] v.t = "number" -> v.s
    [] OTHER -> <<"[object Object]">>

\* ------------------------------------------------------------------------
\* String primitives
\* ------------------------------------------------------------------------
\* s occurs in text at position p (1-based)
OccursAt(s, text, p) ==
  /\ p + Len(s) - 1 <= Len(text)
  /\ \A k \in 1..Len(s) : text[p + k - 1] = s[k]

\* String.prototype.includes: text.includes(s)
Includes(text, s) == \E p \in 1..(Len(text) + 1) : OccursAt(s, text, p)

\* White space as matched by \s and removed by trim()
IsWhiteSpace(c) == c \in {" ", "\t", "\n", "\r"}

\* Line terminators: not matched by `.`, delimit ^ and $ under the m flag
IsLineTerminator(c) == c \in {"\n", "\r"}

\* Canonical case of a character under the i flag
Canonicalize(c) ==
  CASE c = "S" -> "s" [] c = "I" -> "i" [] c = "G" -> "g" [] c = "N" -> "n"
    [] c = "E" -> "e" [] c = "D" -> "d" [] c = "O" -> "o" [] c = "F" -> "f"
    [] c = "B" -> "b" [] c = "Y" -> "y" [] c = "T" -> "t"
    [] OTHER -> c

\* String.prototype.trim
RECURSIVE TrimStart(_)
TrimStart(s) ==
  IF s # <<>> /\ IsWhiteSpace(Head(s)) THEN TrimStart(Tail(s)) ELSE s

RECURSIVE TrimEnd(_)
TrimEnd(s) ==
  IF s # <<>> /\ IsWhiteSpace(s[Len(s)])
    THEN TrimEnd(SubSeq(s, 1, Len(s) - 1))
    ELSE s

Trim(s) == TrimEnd(TrimStart(s))

\* Find returning the last element that satisfies the callback
FindLast(items, hits) ==
  IF hits = {} THEN Undefined
  ELSE items[CHOOSE m \in hits : \A o \in hits : m >= o]

\* Array.prototype.find: the first element satisfying Test, else undefined
\* (hits: the positions whose element satisfies the callback)
Find(items, hits) ==
  IF hits = {} THEN Undefined
  ELSE items[CHOOSE m \in hits : \A o \in hits : m <= o]

\* ------------------------------------------------------------------------
\* signOffRegex = /^Signed-off-by:\s*(.*)$/gim
\* ------------------------------------------------------------------------
SignOffKey ==
  <<"S", "i", "g", "n", "e", "d", "-", "o", "f", "f", "-", "b", "y", ":">>

\* ^ under the m flag: start of input or just after a line terminator
AtLineStart(text, p) == p = 1 \/ IsLineTerminator(text[p - 1])

\* ^Signed-off-by: matches at p, letters compared under the i flag
KeyAt(text, p) ==
  /\ AtLineStart(text, p)
  /\ p + Len(SignOffKey) - 1 <= Len(text)
  /\ \A k \in 1..Len(SignOffKey) :
       Canonicalize(text[p + k - 1]) = Canonicalize(SignOffKey[k])

\* \s* (greedy): the first position at or after q that holds no white space
RECURSIVE SkipWhiteSpace(_, _)
SkipWhiteSpace(text, q) ==
  IF q <= Len(text) /\ IsWhiteSpace(text[q])
    THEN SkipWhiteSpace(text, q + 1)
    ELSE q

\* (.*)$ (greedy): the first position at or after q that holds a line
\* terminator, or the end of input
RECURSIVE SkipToLineEnd(_, _)
SkipToLineEnd(text, q) ==
  IF q <= Len(text) /\ ~IsLineTerminator(text[q])
    THEN SkipToLineEnd(text, q + 1)
    ELSE q

\* signOffRegex.exec(text) with lastIndex at position from (1-based):
\* null, or the capture group 1 and the new lastIndex
Exec(text, from) ==
  LET starts == {p \in from..Len(text) : KeyAt(text, p)}
  IN IF starts = {} THEN [found |-> FALSE, group1 |-> <<>>, lastIndex |-> 1]
     ELSE LET p == CHOOSE m \in starts : \A o \in starts : m <= o
              q == SkipWhiteSpace(text, p + Len(SignOffKey))
              r == SkipToLineEnd(text, q)
          IN [found |-> TRUE, group1 |-> SubSeq(text, q, r - 1),
              lastIndex |-> r]

\* The while loop that fills extractedSignOffs
RECURSIVE ExecLoop(_, _)
ExecLoop(text, from) ==
  LET match == Exec(text, from)
  IN IF ~match.found THEN <<>>
     ELSE <<Trim(match.group1)>> \o ExecLoop(text, match.lastIndex)

ExtractSignOffs(text) == ExecLoop(text, 1)

\* ------------------------------------------------------------------------
\* Outcomes and their messages
\* ------------------------------------------------------------------------
Outcome(passed, message) == [passed |-> passed, message |-> message]

\* The substring variant prefixes its own messages, the trailer variant
\* does not ("Prefix removed")
Prefix(m) ==
  IF m = "substring"
    THEN <<"[@mridang/commitlint-plugin-conditionals ignoreForAuthors] ">>
    ELSE <<>>

\* Name of the bypass-pattern option field the variant reads
PatternField(m) ==
  IF m = "substring" THEN "ignoreAuthorPatterns" ELSE "signOffPatternsToIgnore"

NeverOutcome == Outcome(TRUE, <<>>)

\* RawInvalidOutcome reported as a pass
RawInvalidOutcomePassing(m) ==
  Outcome(TRUE,
    Prefix(m) \o <<"Raw commit message is not available or is invalid.">>)

RawInvalidOutcome(m) ==
  Outcome(FALSE,
    Prefix(m) \o <<"Raw commit message is not available or is invalid.">>)

PatternsInvalidOutcome(m) ==
  Outcome(FALSE,
    Prefix(m) \o <<"Configuration error: ", "'", PatternField(m), "'",
                   " must be an array of strings.">>)

BypassOutcome(m, pattern) ==
  Outcome(TRUE,
    Prefix(m)
    \o (IF m = "substring"
          THEN <<"Commit by ignored author pattern (", "'">>
          ELSE <<"Commit has a 'Signed-off-by' line matching pattern (", "'">>)
    \o pattern
    \o <<"'", "). Ruleset defined in 'rulesToEnforce' bypassed.">>)

NoRulesOutcome(m) ==
  Outcome(TRUE,
    Prefix(m)
    \o <<"No rules configured in \"rulesToEnforce\"">>
    \o (IF m = "substring"
          THEN <<" for this author, or author was ignored. Rule passes.">>
          ELSE <<" for this author/commit, or author was ignored. Rule passes.">>))

InvalidRuleConfigOutcome(m) ==
  Outcome(FALSE,
    Prefix(m)
    \o <<"Invalid rule configuration in 'rulesToEnforce': 'packageName' and 'ruleName' must be strings.">>)

LoadErrorOutcome(m, packageName, errorMessage) ==
  Outcome(FALSE,
    Prefix(m) \o <<"Error loading plugin package ", "'">> \o packageName
    \o <<"'", ": ">> \o errorMessage)

NotFoundOutcome(m, packageName, ruleName) ==
  Outcome(FALSE,
    Prefix(m) \o <<"Rule ", "'">> \o ruleName
    \o <<"'", " not found or not a function in package ", "'">> \o packageName
    \o <<"'", ".">>)

\* ViaOutcome without the provenance of the failing rule
ViaOutcomeOwnName(m, packageName, ruleName, message) ==
  Outcome(FALSE, Prefix(m) \o StringOf(message))

ViaOutcome(m, packageName, ruleName, message) ==
  Outcome(FALSE,
    (IF m = "substring"
       THEN <<"[@mridang/commitlint-plugin-conditionals ">>
       ELSE <<"[">>)
    \o <<"via ">> \o packageName \o <<"/">> \o ruleName \o <<"] ">>
    \o StringOf(message))

\* AllPassedOutcome reported as a failure
AllPassedOutcomeFailing(m) ==
  Outcome(FALSE,
    Prefix(m) \o <<"All configured \"rulesToEnforce\" passed for this author.">>)

AllPassedOutcome(m) ==
  Outcome(TRUE,
    Prefix(m) \o <<"All configured \"rulesToEnforce\" passed for this author.">>)

\* ------------------------------------------------------------------------
\* Bypass check (the part of the rule between the raw check and the
\* rulesToEnforce check)
\* ------------------------------------------------------------------------
\* AllStrings with some() in place of every()
AllStringsSome(items) == \E k \in 1..Len(items) : TypeOf(items[k]) = "string"

AllStrings(items) == \A k \in 1..Len(items) : TypeOf(items[k]) = "string"

\* ignoreAuthorPatterns.find(pattern => rawCommitMessage.includes(pattern))
MatchedIgnoredPattern(raw, items) ==
  Find(items, {k \in 1..Len(items) : Includes(raw, items[k].s)})

\* signOffPatternsToIgnore.find(p => extractedSignOffs.some(s => s.includes(p)))
\* behind the two length guards
MatchedSignOffPattern(raw, items) ==
  LET extractedSignOffs == ExtractSignOffs(raw)
  IN IF Len(items) > 0 /\ Len(extractedSignOffs) > 0
       THEN Find(items,
              {k \in 1..Len(items) :
                 \E j \in 1..Len(extractedSignOffs) :
                   Includes(extractedSignOffs[j], items[k].s)})
       ELSE Undefined

MatchedPattern(m, raw, items) ==
  IF m = "substring" THEN MatchedIgnoredPattern(raw, items)
  ELSE MatchedSignOffPattern(raw, items)

\* BypassCheck taking a list without entries for a list that matches every
\* commit
BypassCheckEmptyMatchesAll(m, raw, patterns) ==
  IF Truthy(patterns) /\ IsArray(patterns)
    THEN IF ~AllStrings(patterns.items)
           THEN [returns |-> TRUE, outcome |-> PatternsInvalidOutcome(m)]
         ELSE IF Len(patterns.items) = 0
           THEN [returns |-> TRUE, outcome |-> BypassOutcome(m, <<>>)]
         ELSE LET matched == MatchedPattern(m, raw, patterns.items)
              IN IF Truthy(matched)
                   THEN [returns |-> TRUE,
                         outcome |-> BypassOutcome(m, matched.s)]
                   ELSE [returns |-> FALSE, outcome |-> NeverOutcome]
    ELSE [returns |-> FALSE, outcome |-> NeverOutcome]

\* The outcome the pattern block returns, or "none" when it falls through
BypassCheck(m, raw, patterns) ==
  IF Truthy(patterns) /\ IsArray(patterns)
    THEN IF ~AllStrings(patterns.items)
           THEN [returns |-> TRUE, outcome |-> PatternsInvalidOutcome(m)]
         ELSE LET matched == MatchedPattern(m, raw, patterns.items)
              IN IF Truthy(matched)
                   THEN [returns |-> TRUE,
                         outcome |-> BypassOutcome(m, matched.s)]
                   ELSE [returns |-> FALSE, outcome |-> NeverOutcome]
    ELSE [returns |-> FALSE, outcome |-> NeverOutcome]

\* ------------------------------------------------------------------------
\* Providers: what `await import(packageName)` yields, and the delegated
\* rules found in them
\* ------------------------------------------------------------------------
\* A callable.  beh is what a call does: "returns" (a two-element outcome,
\* directly or through a promise), "throws" (synchronously), "rejects" (a
\* promise that rejects), "returnsNonIterable" (a value that cannot be
\* destructured as [isValid, message]).
Fn(beh, isValid, message) ==
  [t |-> "function", beh |-> beh,
   outcome |-> [isValid |-> isValid, message |-> message]]

Obj(props) == [t |-> "object", props |-> props]

\* A thrown value: an Error carrying a message, or any other value
JsError(message) == [isError |-> TRUE, message |-> message, value |-> Undefined]

Thrown(value) == [isError |-> FALSE, message |-> <<>>, value |-> value]

\* Properties every plain object inherits from Object.prototype
ObjectPrototype ==
  (<<"constructor">> :> Fn("returnsNonIterable", FALSE, Undefined))
  @@ (<<"toString">> :> Fn("returns", TRUE, Str(<<"o">>)))

\* obj[key]
Get(obj, key) ==
  IF obj.t # "object" THEN Undefined
  ELSE IF key \in DOMAIN obj.props THEN obj.props[key]
  ELSE IF key \in DOMAIN ObjectPrototype THEN ObjectPrototype[key]
  ELSE Undefined

CatalogA ==
  Obj((<<"pass">> :> Fn("returns", TRUE, Str(<<>>)))
      @@ (<<"fail">> :> Fn("returns", FALSE, Str(<<"t", "y", "p", "e">>)))
      @@ (<<"throws">> :> Fn("throws", FALSE, Str(<<"boom">>)))
      @@ (<<"rejects">> :> Fn("rejects", FALSE, Str(<<"boom">>)))
      @@ (<<"malformed">> :> Str(<<"not-a-function-string">>)))

CatalogB == Obj(<<"pass">> :> Fn("returns", TRUE, Undefined))

CatalogC == Obj(<<"fail">> :> Fn("returns", FALSE, Undefined))

\* A rule named 'pick' that reports failure with a message telling which
\* catalog it sits in
Pick(origin) == Fn("returns", FALSE, Str(<<origin>>))

CatalogNested == Obj(<<"pick">> :> Pick("nested"))

CatalogDefault == Obj(<<"pick">> :> Pick("default"))

CatalogNamed ==
  Obj((<<"pick">> :> Pick("named"))
      @@ (<<"only3">> :> Fn("returns", TRUE, Str(<<>>)))
      @@ (<<"toString">> :> Pick("named")))

\* A default export without properties
EmptyObject == Obj(<<>>)

\* The module registry of the host runtime: pkgA exposes default.rules, pkgB
\* a default export that is the catalog, pkgC a named `rules` export, pkgNone
\* no catalog; pkgAll exposes all three shapes, pkgTwo the last two,
\* pkgNullRules a default export whose `rules` is null, pkgEmpty an empty
\* default export, pkgFn a default export that is a function, each next to
\* a named `rules` export; pkgRaw fails to load with a non-Error value,
\* every other name with an Error.
Import(packageName) ==
  CASE packageName = <<"pkgA">> ->
         [ok |-> TRUE, error |-> JsError(<<>>),
          module |-> [default |-> Obj(<<"rules">> :> CatalogA), rules |-> Undefined]]
    [] packageName = <<"pkgB">> ->
         [ok |-> TRUE, error |-> JsError(<<>>),
          module |-> [default |-> CatalogB, rules |-> Undefined]]
    [] packageName = <<"pkgC">> ->
         [ok |-> TRUE, error |-> JsError(<<>>),
          module |-> [default |-> Undefined, rules |-> CatalogC]]
    [] packageName = <<"pkgNone">> ->
         [ok |-> TRUE, error |-> JsError(<<>>),
          module |-> [default |-> Undefined, rules |-> Undefined]]
    [] packageName = <<"pkgAll">> ->
         [ok |-> TRUE, error |-> JsError(<<>>),
          module |-> [default |-> Obj((<<"rules">> :> CatalogNested)
                                      @@ (<<"pick">> :> Pick("default"))),
                      rules |-> CatalogNamed]]
    [] packageName = <<"pkgTwo">> ->
         [ok |-> TRUE, error |-> JsError(<<>>),
          module |-> [default |-> CatalogDefault, rules |-> CatalogNamed]]
    [] packageName = <<"pkgNullRules">> ->
         [ok |-> TRUE, error |-> JsError(<<>>),
          module |-> [default |-> Obj((<<"rules">> :> Null)
                                      @@ (<<"pick">> :> Pick("default"))),
                      rules |-> CatalogNamed]]
    [] packageName = <<"pkgEmpty">> ->
         [ok |-> TRUE, error |-> JsError(<<>>),
          module |-> [default |-> EmptyObject, rules |-> CatalogNamed]]
    [] packageName = <<"pkgFn">> ->
         [ok |-> TRUE, error |-> JsError(<<>>),
          module |-> [default |-> Fn("returns", TRUE, Str(<<>>)),
                      rules |-> CatalogNamed]]
    [] packageName = <<"pkgRaw">> ->
         [ok |-> FALSE, error |-> Thrown(Str(<<"denied">>)),
          module |-> [default |-> Undefined, rules |-> Undefined]]
    [] OTHER ->
         [ok |-> FALSE,
          error |-> JsError(<<"Cannot find package '">> \o packageName \o <<"'">>),
          module |-> [default |-> Undefined, rules |-> Undefined]]

\* The module cache before an evaluation: what the host yields for each
\* package name the entries of rulesToEnforce hold
Registry(rulesToEnforce) ==
  [packageName \in
     {rulesToEnforce.items[k].packageName.s :
        k \in {j \in 1..Len(rulesToEnforce.items) :
                 rulesToEnforce.items[j].packageName.t = "string"}}
   |-> Import(packageName)]

\* RulesCatalog looking at the top-level `rules` export first
RulesCatalogNamedFirst(targetPluginModule) ==
  IF TypeOf(targetPluginModule.rules) = "object"
     /\ targetPluginModule.rules.t # "null"
    THEN targetPluginModule.rules
  ELSE IF ~Truthy(targetPluginModule.default) THEN Undefined
  ELSE IF TypeOf(Get(targetPluginModule.default, <<"rules">>)) = "object"
          /\ Get(targetPluginModule.default, <<"rules">>).t # "null"
    THEN Get(targetPluginModule.default, <<"rules">>)
  ELSE IF TypeOf(targetPluginModule.default) = "object"
    THEN targetPluginModule.default
  ELSE Undefined

\* RulesCatalog passing over a mapping without properties
RulesCatalogSkippingEmpty(targetPluginModule) ==
  LET viaDefault ==
        IF Truthy(targetPluginModule.default)
          THEN IF TypeOf(Get(targetPluginModule.default, <<"rules">>)) = "object"
                  /\ Get(targetPluginModule.default, <<"rules">>).t # "null"
                  /\ DOMAIN Get(targetPluginModule.default, <<"rules">>).props # {}
                 THEN Get(targetPluginModule.default, <<"rules">>)
               ELSE IF TypeOf(targetPluginModule.default) = "object"
                       /\ DOMAIN targetPluginModule.default.props # {}
                 THEN targetPluginModule.default
               ELSE Undefined
          ELSE Undefined
  IN IF ~Truthy(viaDefault)
        /\ TypeOf(targetPluginModule.rules) = "object"
        /\ targetPluginModule.rules.t # "null"
       THEN targetPluginModule.rules
       ELSE viaDefault

\* The three-way lookup of the rules catalog in a loaded module
RulesCatalog(targetPluginModule) ==
  LET viaDefault ==
        IF Truthy(targetPluginModule.default)
          THEN IF TypeOf(Get(targetPluginModule.default, <<"rules">>)) = "object"
                  /\ Get(targetPluginModule.default, <<"rules">>).t # "null"
                 THEN Get(targetPluginModule.default, <<"rules">>)
               ELSE IF TypeOf(targetPluginModule.default) = "object"
                 THEN targetPluginModule.default
               ELSE Undefined
          ELSE Undefined
  IN IF ~Truthy(viaDefault)
        /\ TypeOf(targetPluginModule.rules) = "object"
        /\ targetPluginModule.rules.t # "null"
       THEN targetPluginModule.rules
       ELSE viaDefault

\* ruleFunction after the try block
ResolveRule(targetPluginModule, ruleName) ==
  LET rulesCatalog == RulesCatalog(targetPluginModule)
  IN IF Truthy(rulesCatalog) THEN Get(rulesCatalog, ruleName) ELSE Undefined

\* ErrorMessage reading .message of whatever was thrown
ErrorMessageOfAny(error) ==
  IF error.isError THEN error.message ELSE <<"undefined">>

\* error instanceof Error ? error.message : String(error)
ErrorMessage(error) ==
  IF error.isError THEN error.message ELSE StringOf(error.value)

\* ------------------------------------------------------------------------
\* One evaluation of ignoreForAuthors(parsedCommitData, when, value)
\* ------------------------------------------------------------------------
VARIABLES
  mode,              \* which variant of the rule runs: "substring" | "trailer"
  parsedCommitData,  \* first argument
  when,              \* second argument as passed ("undefined" when omitted)
  value,             \* third argument
  pc,                \* "start" | "importing" | "invoking" | "returned" | "rejected"
  idx,               \* position of ruleConfig in rulesToEnforce
  ruleFunction,      \* the callable resolved for the current ruleConfig
  result,            \* the outcome the returned promise resolved with
  error,             \* the value the returned promise rejected with
  loads,             \* the import() calls made so far, in order
  calls,             \* the delegated-rule calls made so far, in order
  registry           \* the module cache of the host: what import() yields

vars ==
  <<mode, parsedCommitData, when, value, pc, idx, ruleFunction, result,
    error, loads, calls, registry>>

inputs == <<mode, parsedCommitData, when, value>>

\* WhenParam without the values other than 'always': the rule as it would
\* be if it never saw 'never'
WhenParamWithoutNever(w) == "always"

\* when: RuleConfigCondition = 'always'
WhenParam(w) == IF w = "undefined" THEN "always" ELSE w

\* const options = value || {}
Options(v) ==
  IF Truthy(v) THEN v
  ELSE [t |-> "object", patterns |-> [t |-> "undefined", items |-> <<>>],
        rulesToEnforce |-> [t |-> "undefined", items |-> <<>>]]

\* NoWrites with `const options = value || {}` writing the defaulted
\* options back into the caller's value
NoWritesButDefaults ==
  /\ UNCHANGED <<mode, parsedCommitData, when, registry>>
  /\ value' = Options(value)

\* The rule only reads its arguments and the modules it loads: no statement
\* assigns to a field of parsed, of value or of a catalog
NoWrites == UNCHANGED <<inputs, registry>>

\* NoRulesToEnforce without the test for an empty array
NoRulesToEnforceAbsentOnly(rulesToEnforce) ==
  \/ ~Truthy(rulesToEnforce)
  \/ ~IsArray(rulesToEnforce)

\* The guard in front of the loop
NoRulesToEnforce(rulesToEnforce) ==
  \/ ~Truthy(rulesToEnforce)
  \/ ~IsArray(rulesToEnforce)
  \/ Len(rulesToEnforce.items) = 0

\* InvalidRuleConfig without the test of ruleName
InvalidRuleConfigPackageOnly(ruleConfig) ==
  \/ ~Truthy(ruleConfig)
  \/ TypeOf(ruleConfig.packageName) # "string"

\* The guard at the head of the loop body
InvalidRuleConfig(ruleConfig) ==
  \/ ~Truthy(ruleConfig)
  \/ TypeOf(ruleConfig.packageName) # "string"
  \/ TypeOf(ruleConfig.ruleName) # "string"

Return(outcome) ==
  /\ pc' = "returned"
  /\ result' = outcome

Reject(err) ==
  /\ pc' = "rejected"
  /\ error' = err
  /\ UNCHANGED result

\* Iterate leaving the loop after its first entry
IterateFirstOnly(k) ==
  LET rulesToEnforce == Options(value).rulesToEnforce.items
  IN IF k > Len(rulesToEnforce) \/ k > 1
       THEN /\ Return(AllPassedOutcome(mode))
            /\ UNCHANGED <<idx, loads, error>>
     ELSE IF InvalidRuleConfig(rulesToEnforce[k])
       THEN /\ Return(InvalidRuleConfigOutcome(mode))
            /\ UNCHANGED <<idx, loads, error>>
     ELSE /\ pc' = "importing"
          /\ idx' = k
          /\ loads' = Append(loads, rulesToEnforce[k].packageName.s)
          /\ UNCHANGED <<result, error>>

\* Iterate validating every remaining entry before it loads the next
IterateValidatingAhead(k) ==
  LET rulesToEnforce == Options(value).rulesToEnforce.items
  IN IF k > Len(rulesToEnforce)
       THEN /\ Return(AllPassedOutcome(mode))
            /\ UNCHANGED <<idx, loads, error>>
     ELSE IF \E j \in k..Len(rulesToEnforce) :
               InvalidRuleConfig(rulesToEnforce[j])
       THEN /\ Return(InvalidRuleConfigOutcome(mode))
            /\ UNCHANGED <<idx, loads, error>>
     ELSE /\ pc' = "importing"
          /\ idx' = k
          /\ loads' = Append(loads, rulesToEnforce[k].packageName.s)
          /\ UNCHANGED <<result, error>>

\* Iterate asking for the provider a second time
IterateLoadingTwice(k) ==
  LET rulesToEnforce == Options(value).rulesToEnforce.items
  IN IF k > Len(rulesToEnforce)
       THEN /\ Return(AllPassedOutcome(mode))
            /\ UNCHANGED <<idx, loads, error>>
     ELSE IF InvalidRuleConfig(rulesToEnforce[k])
       THEN /\ Return(InvalidRuleConfigOutcome(mode))
            /\ UNCHANGED <<idx, loads, error>>
     ELSE /\ pc' = "importing"
          /\ idx' = k
          /\ loads' = loads \o <<rulesToEnforce[k].packageName.s,
                                 rulesToEnforce[k].packageName.s>>
          /\ UNCHANGED <<result, error>>

\* The loop from the head of iteration k up to the next await
\* (or to the return that ends the evaluation)
Iterate(k) ==
  LET rulesToEnforce == Options(value).rulesToEnforce.items
  IN IF k > Len(rulesToEnforce)
       THEN /\ Return(AllPassedOutcome(mode))
            /\ UNCHANGED <<idx, loads, error>>
     ELSE IF InvalidRuleConfig(rulesToEnforce[k])
       THEN /\ Return(InvalidRuleConfigOutcome(mode))
            /\ UNCHANGED <<idx, loads, error>>
     ELSE /\ pc' = "importing"
          /\ idx' = k
          /\ loads' = Append(loads, rulesToEnforce[k].packageName.s)
          /\ UNCHANGED <<result, error>>

\* The call of the rule up to its first await, for the bypass-pattern
\* list the options hold
StartWith(patterns) ==
  /\ pc = "start"
  /\ NoWrites
  /\ UNCHANGED <<ruleFunction, calls>>
  /\ IF WhenParam(when) = "never"
       THEN /\ Return(NeverOutcome)
            /\ UNCHANGED <<idx, loads, error>>
     ELSE IF TypeOf(parsedCommitData.raw) # "string"
       THEN /\ Return(RawInvalidOutcome(mode))
            /\ UNCHANGED <<idx, loads, error>>
     ELSE LET bypass == BypassCheck(mode, parsedCommitData.raw.s, patterns)
          IN IF bypass.returns
               THEN /\ Return(bypass.outcome)
                    /\ UNCHANGED <<idx, loads, error>>
             ELSE IF NoRulesToEnforce(Options(value).rulesToEnforce)
               THEN /\ Return(NoRulesOutcome(mode))
                    /\ UNCHANGED <<idx, loads, error>>
             ELSE Iterate(1)

\* const { ignoreAuthorPatterns, rulesToEnforce } = options, and the call
\* up to its first await
Start == StartWith(Options(value).patterns)

\* CallArgs handing the engine's own condition on to the rule
CallArgsPassingWhen(parsed, w, ruleValue) == <<parsed, w, ruleValue>>

\* The arguments of ruleFunction(parsed, 'always', ruleValue)
CallArgs(parsed, w, ruleValue) == <<parsed, "always", ruleValue>>

\* import(packageName) settles: the rest of the try block, the typeof
\* check and the call ruleFunction(parsed, 'always', ruleValue)
ImportSettles ==
  /\ pc = "importing"
  /\ NoWrites
  /\ UNCHANGED <<idx, loads>>
  /\ LET ruleConfig == Options(value).rulesToEnforce.items[idx]
         packageName == ruleConfig.packageName.s
         ruleName == ruleConfig.ruleName.s
         imported == registry[packageName]
         resolved == ResolveRule(imported.module, ruleName)
     IN IF ~imported.ok
          THEN /\ Return(LoadErrorOutcome(mode, packageName,
                                          ErrorMessage(imported.error)))
               /\ UNCHANGED <<ruleFunction, calls, error>>
        ELSE IF TypeOf(resolved) # "function"
          THEN /\ Return(NotFoundOutcome(mode, packageName, ruleName))
               /\ UNCHANGED <<ruleFunction, calls, error>>
        ELSE /\ ruleFunction' = resolved
             /\ calls' = Append(calls,
                  [idx |-> idx,
                   args |-> CallArgs(parsedCommitData, WhenParam(when),
                                    ruleConfig.value)])
             /\ IF resolved.beh = "throws"
                  THEN Reject(JsError(StringOf(resolved.outcome.message)))
                  ELSE /\ pc' = "invoking"
                       /\ UNCHANGED <<result, error>>

\* await Promise.resolve(...) settles: destructuring, the isValid check and
\* the next iteration
RuleSettles ==
  /\ pc = "invoking"
  /\ NoWrites
  /\ UNCHANGED <<ruleFunction, calls>>
  /\ LET ruleConfig == Options(value).rulesToEnforce.items[idx]
     IN IF ruleFunction.beh = "rejects"
          THEN /\ Reject(JsError(StringOf(ruleFunction.outcome.message)))
               /\ UNCHANGED <<idx, loads>>
        ELSE IF ruleFunction.beh = "returnsNonIterable"
          THEN /\ Reject(JsError(<<"outcome is not iterable">>))
               /\ UNCHANGED <<idx, loads>>
        ELSE IF ~ruleFunction.outcome.isValid
          THEN /\ Return(ViaOutcome(mode, ruleConfig.packageName.s,
                                    ruleConfig.ruleName.s,
                                    ruleFunction.outcome.message))
               /\ UNCHANGED <<idx, loads, error>>
        ELSE Iterate(idx + 1)

Next == Start \/ ImportSettles \/ RuleSettles

\* ------------------------------------------------------------------------
\* The inputs explored
\* ------------------------------------------------------------------------
SeqsUpTo(S, n) == UNION {[1..k -> S] : k \in 0..n}

\* lines.join('\n')
RECURSIVE Join(_)
Join(lines) ==
  IF lines = <<>> THEN <<>>
  ELSE IF Len(lines) = 1 THEN lines[1]
  ELSE lines[1] \o <<"\n">> \o Join(Tail(lines))

Bot == <<"b", "o", "t">>

Off == <<"o", "f", "f">>

\* A plain line, a sign-off line whose value has trailing white space, and
\* a sign-off line in another letter case without a value
LineSamples ==
  { Bot,
    SignOffKey \o <<" ">> \o Bot \o <<" ">>,
    <<"s", "i", "g", "n", "e", "d", "-", "O", "F", "F", "-", "b", "y", ":">> }

RawSamples ==
  {Str(Join(ls)) : ls \in SeqsUpTo(LineSamples, MaxLines)} \cup {Null, Undefined, Num42}

CommitSamples == {[raw |-> r, body |-> Null] : r \in RawSamples}

WhenSamples == {"always", "never", "sometimes", "undefined"}

PatternSamples == {Str(<<>>), Str(Bot), Str(Off), Num42}

PatternsSamples ==
  {[t |-> "array", items |-> ps] : ps \in SeqsUpTo(PatternSamples, MaxPatterns)}
  \cup {[t |-> "undefined", items |-> <<>>], [t |-> "object", items |-> <<>>]}

RuleConfig(packageName, ruleName, ruleValue) ==
  [t |-> "object", packageName |-> packageName, ruleName |-> ruleName,
   value |-> ruleValue]

FeatList == [t |-> "array", s |-> <<"feat">>]

RuleConfigSamples ==
  { RuleConfig(Str(<<"pkgA">>), Str(<<"pass">>), FeatList),
    RuleConfig(Str(<<"pkgA">>), Str(<<"fail">>), Num42),
    RuleConfig(Str(<<"pkgA">>), Str(<<"throws">>), Null),
    RuleConfig(Str(<<"pkgB">>), Str(<<"pass">>), Undefined),
    RuleConfig(Str(<<"pkgC">>), Str(<<"fail">>), Null),
    RuleConfig(Str(<<"pkgMissing">>), Str(<<"pass">>), Null),
    RuleConfig(Undefined, Str(<<"pass">>), Null) }

RulesToEnforceOf(lists) ==
  {[t |-> "array", items |-> rs] : rs \in lists}
  \cup {[t |-> "undefined", items |-> <<>>], [t |-> "object", items |-> <<>>]}

UndefinedValue ==
  [t |-> "undefined", patterns |-> [t |-> "undefined", items |-> <<>>],
   rulesToEnforce |-> [t |-> "undefined", items |-> <<>>]]

\* Every commit and every pattern list, each with every rulesToEnforce of
\* at most one entry
BypassInputs ==
  {<<c, [t |-> "object", patterns |-> ps, rulesToEnforce |-> rs]>> :
     c \in CommitSamples, ps \in PatternsSamples,
     rs \in RulesToEnforceOf(SeqsUpTo(RuleConfigSamples, 1))}

\* Every rulesToEnforce, each with a commit and pattern list of every
\* kind: no pattern field, a list that matches nothing, a list that matches
PlainCommit == [raw |-> Str(Bot), body |-> Null]

SignedCommit ==
  [raw |-> Str(Join(<<Bot, SignOffKey \o <<" ">> \o Bot \o <<" ">>>>)),
   body |-> Null]

EnforceInputs ==
  {<<c, [t |-> "object", patterns |-> ps, rulesToEnforce |-> rs]>> :
     c \in {PlainCommit, SignedCommit},
     ps \in {[t |-> "undefined", items |-> <<>>],
             [t |-> "array", items |-> <<Str(Off)>>],
             [t |-> "array", items |-> <<Str(Off), Str(Bot)>>]},
     rs \in RulesToEnforceOf(SeqsUpTo(RuleConfigSamples, MaxRules))}

InputSamples ==
  BypassInputs \cup EnforceInputs
  \cup {<<c, UndefinedValue>> : c \in CommitSamples}

NoFunction == Undefined

NoOutcome == Outcome(FALSE, <<"pending">>)

NoError == JsError(<<"none">>)

Init ==
  /\ mode \in {"substring", "trailer"}
  /\ when \in WhenSamples
  /\ \E input \in InputSamples :
       /\ parsedCommitData = input[1]
       /\ value = input[2]
  /\ pc = "start"
  /\ idx = 0
  /\ ruleFunction = NoFunction
  /\ result = NoOutcome
  /\ error = NoError
  /\ loads = <<>>
  /\ calls = <<>>
  /\ registry = Registry(value.rulesToEnforce)

Spec == Init /\ [][Next]_vars

\* ------------------------------------------------------------------------
\* The evaluations that explore resolution: every provider of the registry
\* with every rule name, and the malformed entries, alone, behind a passing
\* entry, in front of one and in front of a malformed one
\* ------------------------------------------------------------------------
PackageSamples ==
  { <<"pkgA">>, <<"pkgB">>, <<"pkgC">>, <<"pkgNone">>, <<"pkgAll">>,
    <<"pkgTwo">>, <<"pkgNullRules">>, <<"pkgEmpty">>, <<"pkgFn">>,
    <<"pkgRaw">>, <<"pkgMissing">> }

RuleNameSamples ==
  { <<"pass">>, <<"fail">>, <<"throws">>, <<"rejects">>, <<"malformed">>,
    <<"absent">>, <<"pick">>, <<"only3">>, <<"constructor">>, <<"toString">> }

MalformedSamples ==
  { [t |-> "null", packageName |-> Undefined, ruleName |-> Undefined,
     value |-> Undefined],
    RuleConfig(Undefined, Str(<<"pass">>), Null),
    RuleConfig(Str(<<"pkgA">>), Num42, Null),
    RuleConfig(Str(<<"pkgA">>), Undefined, Null) }

ResolveSamples ==
  {RuleConfig(Str(p), Str(r), FeatList) :
     p \in PackageSamples, r \in RuleNameSamples}
  \cup MalformedSamples

ResolveLists ==
  UNION {{ <<x>>,
           <<RuleConfig(Str(<<"pkgA">>), Str(<<"pass">>), FeatList), x>>,
           <<x, RuleConfig(Str(<<"pkgB">>), Str(<<"pass">>), Undefined)>>,
           <<x, RuleConfig(Undefined, Str(<<"pass">>), Null)>> } :
         x \in ResolveSamples}

InitResolve ==
  /\ mode \in {"substring", "trailer"}
  /\ when \in {"always", "sometimes"}
  /\ parsedCommitData = PlainCommit
  /\ \E rs \in ResolveLists :
       value = [t |-> "object",
                patterns |-> [t |-> "undefined", items |-> <<>>],
                rulesToEnforce |-> [t |-> "array", items |-> rs]]
  /\ pc = "start"
  /\ idx = 0
  /\ ruleFunction = NoFunction
  /\ result = NoOutcome
  /\ error = NoError
  /\ loads = <<>>
  /\ calls = <<>>
  /\ registry = Registry(value.rulesToEnforce)

SpecResolve == InitResolve /\ [][Next]_vars

\* The same evaluations on a host where the synchronous part of the call
\* runs and every started import() and every started delegated call
\* settles
SpecSettling ==
  /\ InitResolve
  /\ [][Next]_vars
  /\ WF_vars(Start)
  /\ WF_vars(ImportSettles)
  /\ WF_vars(RuleSettles)

\* ------------------------------------------------------------------------
\* Vocabulary of the properties
\* ------------------------------------------------------------------------
Finished == pc \in {"returned", "rejected"}

\* The condition is 'always' (given, or omitted and defaulted)
WhenIsAlways == when \in {"always", "undefined"}

RawIsString == parsedCommitData.raw.t = "string"

RawText == parsedCommitData.raw.s

PatternList == value.patterns.items

PatternsAreStrings ==
  /\ value.t = "object"
  /\ value.patterns.t = "array"
  /\ \A k \in 1..Len(PatternList) : PatternList[k].t = "string"

RuleList == value.rulesToEnforce.items

Says(outcome, text) == Includes(outcome.message, text)

SaysBypassed(outcome) ==
  Says(outcome, <<"). Ruleset defined in 'rulesToEnforce' bypassed.">>)

NothingLoadedOrInvoked == loads = <<>> /\ calls = <<>>

\* The lines of a text, split at "\n"
RECURSIVE SplitLines(_)
SplitLines(text) ==
  LET breaks == {p \in 1..Len(text) : text[p] = "\n"}
  IN IF breaks = {} THEN <<text>>
     ELSE LET p == CHOOSE m \in breaks : \A o \in breaks : m <= o
          IN <<SubSeq(text, 1, p - 1)>>
             \o SplitLines(SubSeq(text, p + 1, Len(text)))

\* A line that starts with Signed-off-by: in any letter case
IsSignOffLine(line) ==
  /\ Len(line) >= Len(SignOffKey)
  /\ \A k \in 1..Len(SignOffKey) :
       Canonicalize(line[k]) = Canonicalize(SignOffKey[k])

\* What follows the key on a sign-off line
SignOffValue(line) == SubSeq(line, Len(SignOffKey) + 1, Len(line))

SignOffLines(text) ==
  {SplitLines(text)[k] : k \in {j \in 1..Len(SplitLines(text)) :
                                  IsSignOffLine(SplitLines(text)[j])}}

\* The callable the registry holds for the k-th entry of rulesToEnforce
RuleAt(k) ==
  ResolveRule(Import(RuleList[k].packageName.s).module, RuleList[k].ruleName.s)

\* The k-th entry is well formed and resolves to a callable
Resolvable(k) ==
  /\ RuleList[k].t = "object"
  /\ RuleList[k].packageName.t = "string"
  /\ RuleList[k].ruleName.t = "string"
  /\ Import(RuleList[k].packageName.s).ok
  /\ RuleAt(k).t = "function"

\* ------------------------------------------------------------------------
\* C1: called with condition 'never', the rule returns exactly [true, '']
\* for every commit and every options value, loads no provider and invokes
\* no delegated rule.
\* ------------------------------------------------------------------------
C1_NeverPassesEmpty ==
  (when = "never" /\ pc # "start")
    => /\ pc = "returned"
       /\ result = [passed |-> TRUE, message |-> <<>>]
       /\ NothingLoadedOrInvoked

\* 'never' with a raw that is no string, a pattern list holding a number
\* and a malformed rulesToEnforce entry
C1_Witness ==
  /\ when = "never"
  /\ pc = "returned"
  /\ ~RawIsString
  /\ value.t = "object"
  /\ \E k \in 1..Len(PatternList) : PatternList[k].t = "number"
  /\ \E k \in 1..Len(RuleList) : RuleList[k].packageName.t # "string"

\* ------------------------------------------------------------------------
\* C2: substring variant, condition 'always', string raw, all-string
\* ignoreAuthorPatterns: if some pattern of the list occurs in raw, the
\* outcome is a pass whose message names a pattern that occurs in raw and
\* says rulesToEnforce was bypassed; nothing is loaded or invoked.
\* ------------------------------------------------------------------------
C2_SubstringMatchBypasses ==
  ( /\ mode = "substring"
    /\ WhenIsAlways
    /\ RawIsString
    /\ PatternsAreStrings
    /\ \E k \in 1..Len(PatternList) : Includes(RawText, PatternList[k].s)
    /\ pc # "start" )
    => /\ pc = "returned"
       /\ result.passed
       /\ \E k \in 1..Len(PatternList) :
            /\ Includes(RawText, PatternList[k].s)
            /\ Says(result, <<"'">> \o PatternList[k].s \o <<"'">>)
       /\ SaysBypassed(result)
       /\ NothingLoadedOrInvoked

\* ------------------------------------------------------------------------
\* C3: once a delegated rule that was invoked has reported failure, the
\* evaluation has returned a failing outcome whose message carries
\* 'via <packageName>/<ruleName>' of that entry and ends with the rule's
\* message verbatim; no later entry is loaded or invoked.
\* ------------------------------------------------------------------------
ReportedFailure(k) ==
  /\ \E j \in 1..Len(calls) : calls[j].idx = k
  /\ ~(pc = "invoking" /\ idx = k)
  /\ RuleAt(k).beh = "returns"
  /\ ~RuleAt(k).outcome.isValid

EndsWith(text, tail) ==
  /\ Len(tail) <= Len(text)
  /\ SubSeq(text, Len(text) - Len(tail) + 1, Len(text)) = tail

C3_FirstFailureShortCircuits ==
  \A k \in 1..Len(RuleList) :
    ReportedFailure(k)
      => /\ pc = "returned"
         /\ ~result.passed
         /\ Says(result, <<"via ">> \o RuleList[k].packageName.s \o <<"/">>
                         \o RuleList[k].ruleName.s \o <<"] ">>)
         /\ RuleAt(k).outcome.message.t = "string"
              => EndsWith(result.message,
                          <<"] ">> \o RuleAt(k).outcome.message.s)
         /\ Len(loads) = k
         /\ \A j \in 1..Len(calls) : calls[j].idx <= k

\* A failing rule with a message, followed by another entry
C3_Witness ==
  /\ pc = "returned"
  /\ Len(RuleList) >= 2
  /\ ReportedFailure(1)
  /\ RuleAt(1).outcome.message.t = "string"
  /\ RuleAt(1).outcome.message.s # <<>>
  /\ Resolvable(2)

\* ------------------------------------------------------------------------
\* C4: no exception escapes ignoreForAuthors: the promise it returns never
\* rejects, whatever a provider or a delegated rule does.
\* ------------------------------------------------------------------------
C4_NoExceptionEscapes == pc # "rejected"

\* ------------------------------------------------------------------------
\* C5: condition 'always' and a raw that is not a string: the outcome is a
\* failure saying 'Raw commit message is not available or is invalid.',
\* whatever the pattern list and rulesToEnforce are; nothing is loaded or
\* invoked.
\* ------------------------------------------------------------------------
C5_NonStringRawFails ==
  (WhenIsAlways /\ ~RawIsString /\ pc # "start")
    => /\ pc = "returned"
       /\ ~result.passed
       /\ Says(result, <<"Raw commit message is not available or is invalid.">>)
       /\ NothingLoadedOrInvoked

\* The raw check wins over a pattern list holding a number and a malformed
\* rulesToEnforce entry
C5_Witness ==
  /\ when = "always"
  /\ pc = "returned"
  /\ parsedCommitData.raw.t = "null"
  /\ value.t = "object"
  /\ \E k \in 1..Len(PatternList) : PatternList[k].t = "number"
  /\ \E k \in 1..Len(RuleList) : RuleList[k].packageName.t # "string"

\* ------------------------------------------------------------------------
\* C6: condition 'always', string raw, a pattern list holding at least one
\* element that is no string: the outcome is the failure
\* "'<field>' must be an array of strings.", whatever rulesToEnforce is and
\* even if a string entry of the list matches; nothing is loaded or invoked.
\* ------------------------------------------------------------------------
C6_NonStringPatternFails ==
  ( /\ WhenIsAlways
    /\ RawIsString
    /\ value.t = "object"
    /\ value.patterns.t = "array"
    /\ \E k \in 1..Len(PatternList) : PatternList[k].t # "string"
    /\ pc # "start" )
    => /\ pc = "returned"
       /\ ~result.passed
       /\ Says(result, <<"'", PatternField(mode), "'",
                         " must be an array of strings.">>)
       /\ NothingLoadedOrInvoked

\* A list whose first entry matches the commit and whose second is a number,
\* with a rule to enforce
C6_Witness ==
  /\ when = "always"
  /\ pc = "returned"
  /\ RawIsString
  /\ value.t = "object"
  /\ Len(PatternList) = 2
  /\ PatternList[1] = Str(Bot)
  /\ Includes(RawText, Bot)
  /\ PatternList[2].t = "number"
  /\ Len(RuleList) > 0

\* ------------------------------------------------------------------------
\* C7: trailer variant: a pattern that occurs in raw only on lines that are
\* not Signed-off-by: lines never causes the bypass.
\* ------------------------------------------------------------------------
OnlyOnOtherLines(pattern, text) ==
  /\ Includes(text, pattern)
  /\ \A line \in SignOffLines(text) : ~Includes(line, pattern)

C7_OtherLinesNeverBypass ==
  ( /\ mode = "trailer"
    /\ WhenIsAlways
    /\ RawIsString
    /\ PatternsAreStrings
    /\ pc = "returned" )
    => \A k \in 1..Len(PatternList) :
         OnlyOnOtherLines(PatternList[k].s, RawText)
           => result # BypassOutcome("trailer", PatternList[k].s)

\* ------------------------------------------------------------------------
\* C8: trailer variant, condition 'always', all-string
\* signOffPatternsToIgnore: if a non-empty pattern of the list is a
\* substring of the trimmed value of a Signed-off-by: line of raw, the
\* outcome is a pass whose message names such a pattern and says
\* rulesToEnforce was bypassed; nothing is loaded or invoked.
\* ------------------------------------------------------------------------
MatchesSignOffLine(pattern, text) ==
  /\ pattern # <<>>
  /\ \E line \in SignOffLines(text) :
       Includes(Trim(SignOffValue(line)), pattern)

C8_SignOffMatchBypasses ==
  ( /\ mode = "trailer"
    /\ WhenIsAlways
    /\ RawIsString
    /\ PatternsAreStrings
    /\ \E k \in 1..Len(PatternList) :
         MatchesSignOffLine(PatternList[k].s, RawText)
    /\ pc # "start" )
    => /\ pc = "returned"
       /\ result.passed
       /\ \E k \in 1..Len(PatternList) :
            /\ MatchesSignOffLine(PatternList[k].s, RawText)
            /\ Says(result, <<"'">> \o PatternList[k].s \o <<"'">>)
       /\ SaysBypassed(result)
       /\ NothingLoadedOrInvoked

\* ------------------------------------------------------------------------
\* C9: every delegated rule that is invoked is called with exactly three
\* arguments: the commit the engine received, the literal 'always', and the
\* entry's own value unchanged.
\* ------------------------------------------------------------------------
C9_CallingConvention ==
  \A j \in 1..Len(calls) :
    /\ Len(calls[j].args) = 3
    /\ calls[j].args[1] = parsedCommitData
    /\ calls[j].args[2] = "always"
    /\ calls[j].args[3] = RuleList[calls[j].idx].value

\* The engine was called with a condition other than 'always' and 'never'
\* and has invoked two rules with different values
C9_Witness ==
  /\ when = "sometimes"
  /\ Len(calls) >= 2
  /\ calls[1].args[3] = FeatList
  /\ calls[2].args[3] = Num42

\* ------------------------------------------------------------------------
\* C10: no bypass, a non-empty rulesToEnforce whose entries are all valid,
\* resolve to a callable and pass: the outcome is a pass saying all
\* configured rulesToEnforce passed, and every entry's rule has been invoked
\* exactly once, in declared order.
\* ------------------------------------------------------------------------
AllEntriesPass ==
  /\ when # "never"
  /\ RawIsString
  /\ value.t = "object"
  /\ value.rulesToEnforce.t = "array"
  /\ Len(RuleList) > 0
  /\ \A k \in 1..Len(RuleList) :
       /\ Resolvable(k)
       /\ RuleAt(k).beh = "returns"
       /\ RuleAt(k).outcome.isValid
  /\ ~BypassCheck(mode, RawText, value.patterns).returns

C10_AllPass ==
  AllEntriesPass
    => /\ pc # "rejected"
       /\ \A j \in 1..Len(calls) : calls[j].idx = j
       /\ pc = "returned"
            => /\ result.passed
               /\ Says(result,
                    <<"All configured \"rulesToEnforce\" passed for this author.">>)
               /\ Len(calls) = Len(RuleList)

\* Two passing entries from two providers, evaluated to the end
C10_Witness ==
  /\ AllEntriesPass
  /\ pc = "returned"
  /\ Len(RuleList) = 2
  /\ RuleList[1].packageName # RuleList[2].packageName

\* ------------------------------------------------------------------------
\* C11: condition 'always', string raw, no bypass: a rulesToEnforce that is
\* absent, not an array or an empty array yields the pass saying
\* 'No rules configured in "rulesToEnforce"', and no provider is loaded.
\* ------------------------------------------------------------------------
\* The pattern block neither reports a configuration error nor a bypass
NoBypass ==
  /\ RawIsString
  /\ ~BypassCheck(mode, RawText, value.patterns).returns

NothingToEnforce ==
  \/ value.rulesToEnforce.t # "array"
  \/ Len(RuleList) = 0

C11_NoRulesPasses ==
  (pc # "start" /\ WhenIsAlways /\ NothingToEnforce /\ NoBypass)
    => /\ pc = "returned"
       /\ result.passed
       /\ Says(result, <<"No rules configured in \"rulesToEnforce\"">>)
       /\ NothingLoadedOrInvoked

\* An empty array behind a pattern list that matches nothing
C11_Witness ==
  /\ when = "always"
  /\ pc = "returned"
  /\ NoBypass
  /\ value.t = "object"
  /\ value.rulesToEnforce.t = "array"
  /\ Len(RuleList) = 0
  /\ Len(PatternList) > 0

\* ------------------------------------------------------------------------
\* C12: when the provider of an entry cannot be loaded, the evaluation ends
\* at that entry with a failing outcome whose message names the packageName
\* and ends with the text of the underlying error; no rule of that entry is
\* invoked and no later entry is loaded or invoked.
\* ------------------------------------------------------------------------
WellFormed(k) ==
  /\ RuleList[k].t = "object"
  /\ RuleList[k].packageName.t = "string"
  /\ RuleList[k].ruleName.t = "string"

\* The import of the k-th entry has settled
Loaded(k) == idx = k /\ pc \notin {"start", "importing"}

\* The text the failed import carries: the message of an Error, the thrown
\* string otherwise
UnderlyingText(k) ==
  LET failure == Import(RuleList[k].packageName.s).error
  IN IF failure.isError THEN failure.message ELSE failure.value.s

LoadFails(k) == WellFormed(k) /\ ~Import(RuleList[k].packageName.s).ok

C12_LoadFailureEnds ==
  \A k \in 1..Len(RuleList) :
    (Loaded(k) /\ LoadFails(k))
      => /\ pc = "returned"
         /\ ~result.passed
         /\ Says(result, <<"Error loading plugin package ", "'">>
                         \o RuleList[k].packageName.s \o <<"'">>)
         /\ EndsWith(result.message, UnderlyingText(k))
         /\ Len(loads) = k
         /\ \A j \in 1..Len(calls) : calls[j].idx < k

\* A provider that fails with a value that is no Error, behind an entry
\* that passed
C12_Witness ==
  /\ pc = "returned"
  /\ idx = 2
  /\ LoadFails(2)
  /\ ~Import(RuleList[2].packageName.s).error.isError
  /\ Len(calls) = 1

\* ------------------------------------------------------------------------
\* C13: when the provider of an entry loads but holds no catalog, or the
\* catalog has no entry under ruleName, or the entry is no function, the
\* evaluation ends at that entry with a failing outcome whose message names
\* ruleName and packageName; nothing is invoked for that entry and no later
\* entry is loaded or invoked.
\* ------------------------------------------------------------------------
Loads(k) == WellFormed(k) /\ Import(RuleList[k].packageName.s).ok

CatalogOf(k) == RulesCatalog(Import(RuleList[k].packageName.s).module)

\* The catalog of the k-th entry defines ruleName itself, as a function
HasOwnFunction(k) ==
  /\ Truthy(CatalogOf(k))
  /\ RuleList[k].ruleName.s \in DOMAIN CatalogOf(k).props
  /\ CatalogOf(k).props[RuleList[k].ruleName.s].t = "function"

SaysNotFound(outcome, k) ==
  /\ Says(outcome, <<"Rule ", "'">> \o RuleList[k].ruleName.s \o <<"'">>)
  /\ Says(outcome, <<" not found or not a function in package ", "'">>
                   \o RuleList[k].packageName.s \o <<"'">>)

C13_UnresolvedRuleEnds ==
  \A k \in 1..Len(RuleList) :
    (Loaded(k) /\ Loads(k) /\ ~HasOwnFunction(k))
      => /\ pc = "returned"
         /\ ~result.passed
         /\ SaysNotFound(result, k)
         /\ Len(loads) = k
         /\ \A j \in 1..Len(calls) : calls[j].idx < k

\* ------------------------------------------------------------------------
\* C14: when iteration reaches an entry that is null or whose packageName
\* or ruleName is not a string, the evaluation ends with a failing outcome
\* saying 'packageName' and 'ruleName' must be strings; no provider is
\* loaded for that entry and every remaining entry is skipped.
\* ------------------------------------------------------------------------
\* The k-th entry is invoked and reports a pass
Passes(k) ==
  /\ Resolvable(k)
  /\ RuleAt(k).beh = "returns"
  /\ RuleAt(k).outcome.isValid

\* Iteration gets as far as the k-th entry
Reaches(k) ==
  /\ when # "never"
  /\ NoBypass
  /\ value.rulesToEnforce.t = "array"
  /\ k \in 1..Len(RuleList)
  /\ \A j \in 1..(k - 1) : Passes(j)

C14_MalformedEntryEnds ==
  \A k \in 1..Len(RuleList) :
    (Reaches(k) /\ ~WellFormed(k) /\ Finished)
      => /\ pc = "returned"
         /\ ~result.passed
         /\ Says(result,
              <<"Invalid rule configuration in 'rulesToEnforce': 'packageName' and 'ruleName' must be strings.">>)
         /\ Len(loads) = k - 1
         /\ Len(calls) = k - 1

\* An entry whose ruleName is a number, behind an entry that passed and
\* in no other way malformed
C14_Witness ==
  /\ pc = "returned"
  /\ Len(RuleList) = 2
  /\ Reaches(2)
  /\ RuleList[2].packageName.t = "string"
  /\ RuleList[2].ruleName.t = "number"
  /\ Len(calls) = 1

\* ------------------------------------------------------------------------
\* C15: the catalog of a loaded provider is (1) the 'rules' field of its
\* default export when that is a non-null object, otherwise (2) the default
\* export itself when it is a mapping, otherwise (3) its top-level 'rules'
\* field when that is a non-null object; a rule the highest-priority shape
\* defines is the one invoked, and no rule of a lower-priority shape ever is.
\* ------------------------------------------------------------------------
IsMapping(v) == v.t = "object"

NestedRules(module) ==
  IF IsMapping(module.default) /\ <<"rules">> \in DOMAIN module.default.props
    THEN module.default.props[<<"rules">>]
    ELSE Undefined

ExpectedCatalog(module) ==
  IF IsMapping(NestedRules(module)) THEN NestedRules(module)
  ELSE IF IsMapping(module.default) THEN module.default
  ELSE IF IsMapping(module.rules) THEN module.rules
  ELSE Undefined

\* The functions a mapping defines under its own keys
OwnFunctions(v) ==
  IF IsMapping(v)
    THEN {v.props[n] : n \in {m \in DOMAIN v.props : v.props[m].t = "function"}}
    ELSE {}

\* Every function the provider defines in any of the three shapes
ProviderFunctions(module) ==
  OwnFunctions(NestedRules(module)) \cup OwnFunctions(module.default)
  \cup OwnFunctions(module.rules)

ModuleOf(k) == Import(RuleList[k].packageName.s).module

\* The highest-priority shape of the k-th entry's provider defines ruleName
\* as a function
ExpectedDefines(k) ==
  /\ IsMapping(ExpectedCatalog(ModuleOf(k)))
  /\ RuleList[k].ruleName.s \in DOMAIN ExpectedCatalog(ModuleOf(k)).props
  /\ ExpectedCatalog(ModuleOf(k)).props[RuleList[k].ruleName.s].t = "function"

Invoked(k) == \E j \in 1..Len(calls) : calls[j].idx = k

C15_CatalogPriority ==
  \A k \in 1..Len(RuleList) :
    (Loaded(k) /\ Loads(k))
      => IF ExpectedDefines(k)
           THEN /\ Invoked(k)
                /\ ruleFunction
                     = ExpectedCatalog(ModuleOf(k)).props[RuleList[k].ruleName.s]
           ELSE Invoked(k) => ruleFunction \notin ProviderFunctions(ModuleOf(k))

\* The rule every shape of pkgAll defines was invoked and answered from
\* the nested catalog
C15_Witness ==
  /\ pc = "returned"
  /\ idx = 1
  /\ RuleList[1].packageName = Str(<<"pkgAll">>)
  /\ RuleList[1].ruleName = Str(<<"pick">>)
  /\ EndsWith(result.message, <<"nested">>)

SomePatternNotString ==
  /\ value.t = "object"
  /\ value.patterns.t = "array"
  /\ \E k \in 1..Len(PatternList) : PatternList[k].t # "string"

\* The k-th entry cannot be enforced or its rule reports failure
EntryFails(k) ==
  \/ ~WellFormed(k)
  \/ LoadFails(k)
  \/ Loads(k) /\ RuleAt(k).t # "function"
  \/ /\ Resolvable(k)
     /\ RuleAt(k).beh = "returns"
     /\ ~RuleAt(k).outcome.isValid

FailureCause ==
  /\ when # "never"
  /\ \/ ~RawIsString
     \/ SomePatternNotString
     \/ /\ value.t = "object"
        /\ value.rulesToEnforce.t = "array"
        /\ \E k \in 1..Len(RuleList) : EntryFails(k)

DefinesRule(k) ==
  /\ Truthy(CatalogOf(k))
  /\ RuleList[k].ruleName.s \in DOMAIN CatalogOf(k).props

C18_InvokedOnlyIfDefined ==
  \A k \in 1..Len(RuleList) :
    (Loaded(k) /\ Loads(k) /\ ~DefinesRule(k))
      => /\ ~Invoked(k)
         /\ pc = "returned"
         /\ ~result.passed
         /\ SaysNotFound(result, k)

\* ------------------------------------------------------------------------
\* C19 as stated: the extraction attempts are tried until one yields a
\* non-empty mapping; a provider whose higher-priority shape is an empty
\* mapping and whose top-level 'rules' field holds the named rule resolves
\* that rule and invokes it.
\* ------------------------------------------------------------------------
\* The highest-priority shape of the k-th entry's provider is a mapping
\* without properties, in front of a top-level 'rules' mapping
EmptyHigherShape(k) ==
  /\ IsMapping(ExpectedCatalog(ModuleOf(k)))
  /\ DOMAIN ExpectedCatalog(ModuleOf(k)).props = {}
  /\ IsMapping(ModuleOf(k).rules)

\* The top-level 'rules' field defines ruleName as a function
NamedDefines(k) ==
  /\ IsMapping(ModuleOf(k).rules)
  /\ RuleList[k].ruleName.s \in DOMAIN ModuleOf(k).rules.props
  /\ ModuleOf(k).rules.props[RuleList[k].ruleName.s].t = "function"

C19_EmptyShapeFallsThrough ==
  \A k \in 1..Len(RuleList) :
    (Loaded(k) /\ Loads(k) /\ EmptyHigherShape(k) /\ NamedDefines(k))
      => /\ Invoked(k)
         /\ ruleFunction = ModuleOf(k).rules.props[RuleList[k].ruleName.s]

\* ------------------------------------------------------------------------
\* C19 amended: the extraction attempts are tried until one yields a
\* mapping, empty or not; a provider whose higher-priority shape is an
\* empty mapping is resolved against that mapping, so a rule held by its
\* top-level 'rules' field is never the one invoked, and unless ruleName
\* is a name every object inherits the evaluation ends at that entry with
\* the 'not found or not a function' failure.
\* ------------------------------------------------------------------------
C19_EmptyMappingIsCatalog ==
  \A k \in 1..Len(RuleList) :
    (Loaded(k) /\ Loads(k) /\ EmptyHigherShape(k) /\ NamedDefines(k))
      => /\ Invoked(k) => ruleFunction \notin OwnFunctions(ModuleOf(k).rules)
         /\ RuleList[k].ruleName.s \notin DOMAIN ObjectPrototype
              => /\ ~Invoked(k)
                 /\ pc = "returned"
                 /\ ~result.passed
                 /\ SaysNotFound(result, k)

\* The empty default export of pkgEmpty hid the rule 'pick' of its
\* top-level 'rules'
C19_Witness ==
  /\ pc = "returned"
  /\ idx = 1
  /\ Loads(1)
  /\ EmptyHigherShape(1)
  /\ NamedDefines(1)
  /\ RuleList[1].ruleName = Str(<<"pick">>)
  /\ calls = <<>>

\* ------------------------------------------------------------------------
\* C20: within one evaluation the events occur in the order load(entry 1),
\* invoke(entry 1), load(entry 2), invoke(entry 2), ...; the provider of
\* entry i+1 is never loaded before the invocation of entry i has completed
\* with a pass, and every position has at most one load and at most one
\* invocation, also when the evaluation ends in failure.
\* ------------------------------------------------------------------------
\* The invocation of the k-th entry has completed with a pass
CompletedWithPass(k) ==
  /\ k <= Len(calls)
  /\ ~(idx = k /\ pc = "invoking")
  /\ Passes(k)

C20_StrictlySequential ==
  /\ Len(calls) <= Len(loads)
  /\ Len(loads) <= Len(calls) + 1
  /\ Len(loads) <= Len(RuleList)
  /\ \A j \in 1..Len(loads) : loads[j] = RuleList[j].packageName.s
  /\ \A j \in 1..Len(calls) : calls[j].idx = j
  /\ \A j \in 1..Len(loads) : j > 1 => CompletedWithPass(j - 1)
  /\ pc = "importing" => Len(loads) = Len(calls) + 1
  /\ pc = "invoking" => Len(loads) = Len(calls)

\* Two loads and two invocations, the second reporting failure
C20_Witness ==
  /\ pc = "returned"
  /\ ~result.passed
  /\ Len(loads) = 2
  /\ Len(calls) = 2

\* ------------------------------------------------------------------------
\* C21: whenever a bypass outcome is returned, the pattern named in its
\* message is the earliest entry, in list order, of the bypass-pattern list
\* that matches: a substring of raw in the substring variant, a substring
\* of some extracted sign-off value in the trailer variant; where the
\* patterns occur in the commit text plays no part.
\* ------------------------------------------------------------------------
\* The k-th pattern matches the commit in the way of the variant
PatternMatches(k) ==
  IF mode = "substring"
    THEN Includes(RawText, PatternList[k].s)
    ELSE \E j \in 1..Len(ExtractSignOffs(RawText)) :
           Includes(ExtractSignOffs(RawText)[j], PatternList[k].s)

NamesPattern(outcome, pattern) ==
  Says(outcome,
       <<"'">> \o pattern
       \o <<"'", "). Ruleset defined in 'rulesToEnforce' bypassed.">>)

C21_FirstMatchingPatternNamed ==
  (pc = "returned" /\ SaysBypassed(result))
    => /\ RawIsString
       /\ PatternsAreStrings
       /\ \E k \in 1..Len(PatternList) :
            /\ PatternMatches(k)
            /\ \A j \in 1..(k - 1) : ~PatternMatches(j)
            /\ NamesPattern(result, PatternList[k].s)

\* Both patterns occur in raw, 'off' in front of 'bot' in the text and
\* behind it in the list: 'bot' is named
C21_Witness ==
  /\ pc = "returned"
  /\ mode = "substring"
  /\ RawIsString
  /\ value.t = "object"
  /\ value.patterns.t = "array"
  /\ PatternList = <<Str(Bot), Str(Off)>>
  /\ OccursAt(Off, RawText, 8)
  /\ ~(\E p \in 1..8 : OccursAt(Bot, RawText, p))
  /\ Includes(RawText, Bot)
  /\ NamesPattern(result, Bot)

\* ------------------------------------------------------------------------
\* C22: validation of the entries of rulesToEnforce is lazy: an invalid
\* entry at position k is reported only after every entry before it has
\* been loaded, invoked and has passed; if an earlier entry fails to load,
\* is not found or reports failure, the outcome is that entry's failure and
\* the invalid-configuration error is not reported.
\* ------------------------------------------------------------------------
SaysInvalidRuleConfig(outcome) ==
  Says(outcome,
       <<"Invalid rule configuration in 'rulesToEnforce': 'packageName' and 'ruleName' must be strings.">>)

NotFound(k) == Loads(k) /\ RuleAt(k).t # "function"

ReportsFailure(k) ==
  /\ Resolvable(k)
  /\ RuleAt(k).beh = "returns"
  /\ ~RuleAt(k).outcome.isValid

\* The outcome is the failure of the k-th entry
SaysFailureOf(outcome, k) ==
  /\ ~outcome.passed
  /\ LoadFails(k)
       => Says(outcome, <<"Error loading plugin package ", "'">>
                        \o RuleList[k].packageName.s \o <<"'">>)
  /\ NotFound(k) => SaysNotFound(outcome, k)
  /\ ReportsFailure(k)
       => Says(outcome, <<"via ">> \o RuleList[k].packageName.s \o <<"/">>
                        \o RuleList[k].ruleName.s \o <<"] ">>)

C22_ValidationIsLazy ==
  /\ (pc = "returned" /\ SaysInvalidRuleConfig(result))
       => \E k \in 1..Len(RuleList) :
            /\ ~WellFormed(k)
            /\ Len(loads) = k - 1
            /\ Len(calls) = k - 1
            /\ \A j \in 1..(k - 1) : Passes(j)
  /\ \A j \in 1..Len(RuleList) :
       ( /\ Finished
         /\ Reaches(j)
         /\ LoadFails(j) \/ NotFound(j) \/ ReportsFailure(j)
         /\ \E k \in (j + 1)..Len(RuleList) : ~WellFormed(k) )
         => /\ pc = "returned"
            /\ SaysFailureOf(result, j)
            /\ ~SaysInvalidRuleConfig(result)

\* The first entry named a rule its provider does not hold, the second
\* entry is malformed
C22_Witness ==
  /\ pc = "returned"
  /\ Len(RuleList) = 2
  /\ ~WellFormed(2)
  /\ NotFound(1)
  /\ SaysNotFound(result, 1)
  /\ Len(loads) = 1

\* ------------------------------------------------------------------------
\* C23: an evaluation never mutates its inputs or what it resolves: no
\* step of an evaluation, be it passing, failing or bypassed, changes the
\* commit object, the options value with its pattern list and its
\* rulesToEnforce entries, or a loaded provider's catalog.
\* ------------------------------------------------------------------------
C23_NothingMutated ==
  [][ /\ parsedCommitData' = parsedCommitData
      /\ value' = value
      /\ registry' = registry ]_vars

\* An evaluation without options that has returned: `value || {}` left the
\* caller's value as it was
C23_Witness ==
  /\ pc = "returned"
  /\ when # "never"
  /\ RawIsString
  /\ value = UndefinedValue
  /\ registry = Registry(value.rulesToEnforce)
  /\ result.passed

\* ------------------------------------------------------------------------
\* C24: for a finite rulesToEnforce, if every provider load and every
\* delegated-rule invocation the evaluation starts eventually completes,
\* the evaluation eventually returns an outcome; there is no timeout or
\* cancellation: an evaluation waiting for a load or an invocation leaves
\* that state only when the load or the invocation settles.
\* ------------------------------------------------------------------------
C24_EventuallyReturns ==
  /\ <>(pc = "returned")
  /\ [][ /\ pc = "importing" => ImportSettles
         /\ pc = "invoking" => RuleSettles ]_vars

\* ------------------------------------------------------------------------
\* C25: an empty bypass-pattern list is equivalent to omitting it: for
\* every commit, condition and rulesToEnforce, the call with patterns = []
\* does, up to its first await, exactly what the call without the pattern
\* field does (same outcome if it returns, same load if it goes on), and
\* the empty list never yields a bypass; the steps after the first await
\* do not read the pattern field.
\* ------------------------------------------------------------------------
EmptyList == [t |-> "array", items |-> <<>>]

Omitted == [t |-> "undefined", items |-> <<>>]

HasEmptyList == value.t = "object" /\ value.patterns = EmptyList

C25_EmptyListAsOmitted ==
  [][ HasEmptyList
        => /\ pc = "start" => StartWith(Omitted)
           /\ ~SaysBypassed(result') ]_vars

\* With an empty list and a sign-off in raw, the trailer variant went on
\* to invoke the configured rule
C25_Witness ==
  /\ mode = "trailer"
  /\ HasEmptyList
  /\ RawIsString
  /\ ExtractSignOffs(RawText) # <<>>
  /\ pc = "returned"
  /\ Len(calls) = 1

====
